---- MODULE Spec2Model ----
(***************************************************************************)
(* Model of the xpay pay-to-run trigger node (XPayTrigger.node.ts; the     *)
(* charge-per-use node carries the same hooks and the same webhook         *)
(* handler): the checkout-session hooks checkExists / create / delete and  *)
(* the inbound webhook handler with its HMAC and freshness checks.         *)
(*                                                                         *)
(* Strings are sequences of units.  A unit is one byte, except that a      *)
(* quoted object key ("payment") and the literal prefix sha256= are        *)
(* carried as one unit each, and an HMAC digest is one unit.               *)
(*                                                                         *)
(* The second part models the runAsync operation of the run node           *)
(* (XPayRun.node.ts; the pay-per-use node carries the same loop): the      *)
(* submission and the polling loop that waits for a terminal run status.   *)
(* Spec drives the trigger node, SpecRun one runAsync operation.           *)
(***************************************************************************)
EXTENDS Integers, Sequences, FiniteSets, TLC

\* ---------------------------------------------------------------- bounds
MaxDeliveries == 2
MaxRegistrations == 3
MaxStatusLen == 3
MaxClock == 12000
MaxItems == 2

\* ------------------------------------------------------------- constants
Undefined == "undefined"
LocalCheckoutId == "local-test"
TestSecret == "test-secret"
FreshnessWindow == 300
POLLING_INTERVAL_MS == 2000
DefaultPollingTimeout == 180

Digits == <<"0", "1", "2", "3", "4", "5", "6", "7", "8", "9">>
DigitSet == {Digits[i] : i \in 1..10}

DigitVal(c) == (CHOOSE i \in 1..10 : Digits[i] = c) - 1

\* ------------------------------------------------------ sequence helpers
IndexOf(s, u) ==
    IF \E i \in 1..Len(s) : s[i] = u
    THEN CHOOSE i \in 1..Len(s) : s[i] = u /\ \A j \in 1..(i - 1) : s[j] # u
    ELSE 0

RECURSIVE SplitOn(_, _)
SplitOn(s, sep) ==
    LET i == IndexOf(s, sep)
    IN IF i = 0 THEN <<s>>
       ELSE <<SubSeq(s, 1, i - 1)>> \o SplitOn(SubSeq(s, i + 1, Len(s)), sep)

RECURSIVE StripLeadingZeros(_)
StripLeadingZeros(ds) ==
    IF Len(ds) > 1 /\ Head(ds) = "0" THEN StripLeadingZeros(Tail(ds)) ELSE ds

RECURSIVE TrailingZeros(_)
TrailingZeros(ds) ==
    IF Len(ds) > 1 /\ ds[Len(ds)] = "0"
    THEN 1 + TrailingZeros(SubSeq(ds, 1, Len(ds) - 1))
    ELSE 0

RECURSIVE DigitsToNat(_)
DigitsToNat(ds) ==
    IF ds = <<>> THEN 0
    ELSE 10 * DigitsToNat(SubSeq(ds, 1, Len(ds) - 1)) + DigitVal(ds[Len(ds)])

RECURSIVE NatToDigits(_)
NatToDigits(n) ==
    IF n < 10 THEN <<Digits[n + 1]>>
    ELSE NatToDigits(n \div 10) \o <<Digits[(n % 10) + 1]>>

Zeros(n) == [i \in 1..n |-> "0"]

\* ------------------------------------------------- JSON numbers (values)
\* A number value is digits * 10^exp, digits without leading or trailing
\* zeros (zero itself is <<"0">>, exp 0).  The payloads of this model carry
\* non-negative integers only.
ParseNumber(lit) ==
    LET expAt == IF IndexOf(lit, "e") # 0 THEN IndexOf(lit, "e") ELSE IndexOf(lit, "E")
        mant == IF expAt = 0 THEN lit ELSE SubSeq(lit, 1, expAt - 1)
        expLit == IF expAt = 0 THEN <<>> ELSE SubSeq(lit, expAt + 1, Len(lit))
        expDigits == IF expLit # <<>> /\ Head(expLit) = "+" THEN Tail(expLit) ELSE expLit
        dotAt == IndexOf(mant, ".")
        intPart == IF dotAt = 0 THEN mant ELSE SubSeq(mant, 1, dotAt - 1)
        fracPart == IF dotAt = 0 THEN <<>> ELSE SubSeq(mant, dotAt + 1, Len(mant))
        all == StripLeadingZeros(intPart \o fracPart)
        tz == TrailingZeros(all)
        sig == SubSeq(all, 1, Len(all) - tz)
    IN IF sig = <<"0">> THEN [digits |-> sig, exp |-> 0]
       ELSE [digits |-> sig, exp |-> DigitsToNat(expDigits) - Len(fracPart) + tz]

\* Number::toString as JSON.stringify applies it to a number.
NumberToString(v) ==
    LET k == Len(v.digits)
        n == k + v.exp
    IN IF n <= 21 THEN v.digits \o Zeros(v.exp)
       ELSE <<v.digits[1]>>
            \o (IF k > 1 THEN <<".">> \o SubSeq(v.digits, 2, k) ELSE <<>>)
            \o <<"e", "+">> \o NatToDigits(n - 1)

Truthy(v) == v.digits # <<"0">>

\* ------------------------------------------------- JSON objects (bodies)
\* A body is the parsed object: its own properties in insertion order.
IsSpace(u) == u = " "

HasKey(body, k) == \E i \in 1..Len(body) : body[i].key = k

Zero == [digits |-> <<"0">>, exp |-> 0]

\* body[k] || 0
Get(body, k) ==
    IF HasKey(body, k)
    THEN body[CHOOSE i \in 1..Len(body) : body[i].key = k].val
    ELSE Zero

\* obj[k] = v: a key already present keeps its place and takes the new value
SetProperty(body, k, v) ==
    IF HasKey(body, k)
    THEN [i \in 1..Len(body) |-> IF body[i].key = k THEN [key |-> k, val |-> v] ELSE body[i]]
    ELSE Append(body, [key |-> k, val |-> v])

RECURSIVE BuildObject(_, _)
BuildObject(members, acc) ==
    IF members = <<>> THEN acc
    ELSE LET m == Head(members)
         IN BuildObject(Tail(members), SetProperty(acc, m[1], ParseNumber(SubSeq(m, 3, Len(m)))))

\* JSON.parse of the request body as the host hands it to getBodyData; a
\* request without a body yields the empty object.
ParseBody(raw) ==
    LET toks == SelectSeq(raw, LAMBDA u : ~IsSpace(u))
        inner == SubSeq(toks, 2, Len(toks) - 1)
    IN IF toks = <<>> \/ inner = <<>> THEN <<>>
       ELSE BuildObject(SplitOn(inner, ","), <<>>)

RECURSIVE JoinMembers(_)
JoinMembers(body) ==
    IF body = <<>> THEN <<>>
    ELSE <<body[1].key, ":">> \o NumberToString(body[1].val)
         \o (IF Len(body) > 1 THEN <<",">> ELSE <<>>) \o JoinMembers(Tail(body))

JSONStringify(body) == <<"{">> \o JoinMembers(body) \o <<"}">>

\* ------------------------------------------------------------ the wire
\* Request bodies as the sender transmits them.
KPayment == "\"payment\""
KInput == "\"input\""
KGetInfo == "\"_getInfo\""

PNoBody == <<>>
PEmpty == <<"{", "}">>
PCanon == <<"{", KPayment, ":", "5", "}">>
PSpaced == <<"{", KPayment, ":", " ", "5", "}">>
PDecimal == <<"{", KPayment, ":", "5", ".", "0", "}">>
PTampered == <<"{", KPayment, ":", "7", "}">>
PTwo == <<"{", KPayment, ":", "5", ",", KInput, ":", "1", "}">>
PBig == <<"{", KPayment, ":", "1", "e", "+", "2", "1", "}">>
PBigUpper == <<"{", KPayment, ":", "1", "E", "+", "2", "1", "}">>
PInfo == <<"{", KGetInfo, ":", "1", "}">>
PInfoPay == <<"{", KPayment, ":", "5", ",", KGetInfo, ":", "1", "}">>
PInfoOff == <<"{", KPayment, ":", "5", ",", KGetInfo, ":", "0", "}">>

Payloads ==
    {PNoBody, PEmpty, PCanon, PSpaced, PDecimal, PTampered, PTwo, PBig,
     PBigUpper, PInfo, PInfoPay, PInfoOff}

\* payloads a sender may have signed before the body was altered in transit
SignedElsewhere == {PCanon, PBig, PInfoOff}

TsFresh == <<"4", "0", "0">>
TsGarbage == <<"x">>
TsStrings == {TsFresh, TsGarbage}

RemoteSecret == "s3cr3t"
RemoteCheckoutId == "chk_1"
RemoteCheckoutUrl == "https://run.xpay.sh/p/chk_1"
SigningKeys == {RemoteSecret, TestSecret}

\* what POST /v1/webhooks/register may answer
RegisterResponses ==
    {[checkout_id |-> RemoteCheckoutId, checkout_url |-> RemoteCheckoutUrl,
      webhook_secret |-> RemoteSecret],
     [checkout_id |-> "chk_2", checkout_url |-> "https://run.xpay.sh/p/chk_2",
      webhook_secret |-> "k3y2"]}

NoRegistration ==
    [checkout_id |-> Undefined, checkout_url |-> Undefined, webhook_secret |-> Undefined]

\* what the registration request may do: answer, or fail (the call throws)
RegisterOutcomes ==
    {[remote |-> "ok", response |-> r] : r \in RegisterResponses} \cup
    {[remote |-> "failed", response |-> NoRegistration]}

Absent == [present |-> FALSE, value |-> <<>>]
Header(v) == [present |-> TRUE, value |-> v]

\* crypto.createHmac('sha256', key).update(msg).digest('hex'): an ideal MAC,
\* distinct (key, msg) pairs give distinct digests; the digest is one unit.
HmacSha256Hex(key, msg) == [tag |-> "hex", key |-> key, msg |-> msg]

Sha256Prefix == [tag |-> "sha256="]

\* what the Payment Service signs: timestamp + "." + the bytes it transmits
SenderSignature(key, ts, raw) == HmacSha256Hex(key, ts \o <<".">> \o raw)

\* the signature headers a request with timestamp ts and body raw may carry:
\* none; the digest some key holder made over ts and raw, bare or behind
\* sha256=; or the digest made over ts and the payload that raw was before
\* it was altered
SignatureHeaders(ts, raw) ==
    {Absent} \cup
    {Header(pre \o <<SenderSignature(k, ts, raw)>>) :
        pre \in {<<>>, <<Sha256Prefix>>}, k \in SigningKeys} \cup
    {Header(<<SenderSignature(k, ts, p)>>) :
        k \in SigningKeys, p \in SignedElsewhere}

\* a request without a timestamp header carries no signature or the
\* sender's own (the handler stops at the missing timestamp either way)
PostRequestsWith(raw, t) ==
    {[method |-> "POST", body |-> raw, sig |-> s, ts |-> t] :
        s \in IF t.present
              THEN SignatureHeaders(t.value, raw)
              ELSE {Absent, Header(<<SenderSignature(RemoteSecret, TsFresh, raw)>>)}}

PostRequests ==
    UNION {PostRequestsWith(raw, t) :
        raw \in Payloads, t \in {Absent} \cup {Header(x) : x \in TsStrings}}

GetRequest == [method |-> "GET", body |-> PNoBody, sig |-> Absent, ts |-> Absent]

NoRequest == [method |-> "none", body |-> PNoBody, sig |-> Absent, ts |-> Absent]

ClockPoints == {99, 100, 700, 701}

\* ------------------------------------------------------------- the node
VARIABLES
    webhookData,   \* getWorkflowStaticData('node'): checkoutId, checkoutUrl, webhookSecret
    testMode,      \* node parameter testMode
    now,           \* Math.floor(Date.now() / 1000)
    req,           \* the request on the wire
    deliveries,    \* how many times req has been delivered to the handler
    triggered,     \* payment events forwarded to the workflow for req
    resp,          \* what the handler returned for the last delivery
    ctx,           \* the static data and the clock that delivery saw
    hook           \* the last session hook and how it ended

\* the run node's runAsync operation on one item
VARIABLES
    pc,                 \* where execute() stands
    parameters,         \* the timing parameters the caller set on the node
    dateNow,            \* Date.now(), in milliseconds
    waitForCompletion,  \* node parameter waitForCompletion
    pollingTimeout,     \* node parameter pollingTimeout, in seconds
    statuses,           \* what the Run Service answers to the successive status queries
    runId,              \* asyncResult.runId
    startTime,          \* startTime
    queries,            \* status queries sent so far
    queriedAt,          \* the dateNow when the last status query was sent
    result,             \* result
    thrown,             \* the error that left the try block
    continueOnFail,     \* this.continueOnFail()
    returnData,         \* returnData: the items execute() has pushed
    raised,             \* the error execute() rejects with
    sleeps,             \* sleeps begun so far
    calls               \* the requests sent to the Run Service so far

triggerVars == <<webhookData, testMode, now, req, deliveries, triggered, resp, ctx, hook>>

runVars ==
    <<pc, parameters, dateNow, waitForCompletion, pollingTimeout, statuses, runId, startTime,
      queries, queriedAt, result, thrown, continueOnFail, returnData, raised,
      sleeps, calls>>

vars == <<triggerVars, runVars>>

NoSession ==
    [checkoutId |-> Undefined, checkoutUrl |-> Undefined, webhookSecret |-> Undefined]

\* ------------------------------------------------------- session hooks
\* checkExists looking for the checkout URL instead of the session id
CheckExistsByUrl(data) == data.checkoutUrl # Undefined

\* checkExists counting only a registered session, as delete does
CheckExistsRegistered(data) ==
    data.checkoutId # Undefined /\ data.checkoutId # LocalCheckoutId

CheckExists(data) == data.checkoutId # Undefined

ValidWallet == "0x742d35Cc6634C0532925a3b844Bc9e7595f8fE00"
Wallets == {ValidWallet, "0x123", ""}

\* the wallet test without the pattern: any non-empty text passes
WalletOkNonEmpty(w) == w # ""

\* /^0x[a-fA-F0-9]{40}$/.test(recipientWallet), on the wallets of this model
WalletOk(w) == w = ValidWallet

\* create without its catch block: a failed registration aborts activation
CreateRethrows(data, wallet, remote, response) ==
    IF ~WalletOk(wallet)
    THEN [data |-> data, result |-> "threw", remote |-> "none",
          response |-> NoRegistration]
    ELSE IF remote = "ok"
    THEN [data |-> [data EXCEPT !.checkoutId = response.checkout_id,
                                !.checkoutUrl = response.checkout_url,
                                !.webhookSecret = response.webhook_secret],
          result |-> "true", remote |-> "ok", response |-> response]
    ELSE [data |-> data, result |-> "threw", remote |-> "failed",
          response |-> NoRegistration]

\* create storing the session id and URL of the answer but not its secret
CreateDropsSecret(data, wallet, remote, response) ==
    IF ~WalletOk(wallet)
    THEN [data |-> data, result |-> "threw", remote |-> "none",
          response |-> NoRegistration]
    ELSE IF remote = "ok"
    THEN [data |-> [data EXCEPT !.checkoutId = response.checkout_id,
                                !.checkoutUrl = response.checkout_url],
          result |-> "true", remote |-> "ok", response |-> response]
    ELSE [data |-> [data EXCEPT !.checkoutId = LocalCheckoutId,
                                !.webhookSecret = TestSecret],
          result |-> "true", remote |-> "failed", response |-> NoRegistration]

\* create: remote is what the registration request does, "ok" (it answers
\* response) or "failed" (it throws); "none" when no request was sent
Create(data, wallet, remote, response) ==
    IF ~WalletOk(wallet)
    THEN [data |-> data, result |-> "threw", remote |-> "none",
          response |-> NoRegistration]
    ELSE IF remote = "ok"
    THEN [data |-> [data EXCEPT !.checkoutId = response.checkout_id,
                                !.checkoutUrl = response.checkout_url,
                                !.webhookSecret = response.webhook_secret],
          result |-> "true", remote |-> "ok", response |-> response]
    ELSE [data |-> [data EXCEPT !.checkoutId = LocalCheckoutId,
                                !.webhookSecret = TestSecret],
          result |-> "true", remote |-> "failed", response |-> NoRegistration]

\* delete without its catch block: a failed DELETE aborts deactivation
DeleteRethrows(data, remote) ==
    IF data.checkoutId = Undefined \/ data.checkoutId = LocalCheckoutId
    THEN [data |-> data, result |-> "true", remote |-> "none"]
    ELSE IF remote = "failed"
    THEN [data |-> data, result |-> "threw", remote |-> remote]
    ELSE [data |-> NoSession, result |-> "true", remote |-> remote]

\* delete clearing the local-fallback sentinel (no request is sent for it)
DeleteClearsFallback(data, remote) ==
    IF data.checkoutId = Undefined
    THEN [data |-> data, result |-> "true", remote |-> "none"]
    ELSE IF data.checkoutId = LocalCheckoutId
    THEN [data |-> NoSession, result |-> "true", remote |-> "none"]
    ELSE [data |-> NoSession, result |-> "true", remote |-> remote]

\* delete: remote is what the DELETE request does when one is sent
Delete(data, remote) ==
    IF data.checkoutId = Undefined \/ data.checkoutId = LocalCheckoutId
    THEN [data |-> data, result |-> "true", remote |-> "none"]
    ELSE [data |-> NoSession, result |-> "true", remote |-> remote]

\* ------------------------------------------------------ webhook handler
Abs(x) == IF x < 0 THEN -x ELSE x

RECURSIVE LeadingDigits(_)
LeadingDigits(s) ==
    IF s # <<>> /\ Head(s) \in DigitSet
    THEN <<Head(s)>> \o LeadingDigits(Tail(s))
    ELSE <<>>

\* parseInt(s, 10)
ParseInt(s) ==
    LET ds == LeadingDigits(s)
    IN IF ds = <<>> THEN [nan |-> TRUE, n |-> 0]
       ELSE [nan |-> FALSE, n |-> DigitsToNat(ds)]

\* signature.replace('sha256=', ''): the first occurrence goes
StripSha256(sig) ==
    LET i == IndexOf(sig, Sha256Prefix)
    IN IF i = 0 THEN sig
       ELSE SubSeq(sig, 1, i - 1) \o SubSeq(sig, i + 1, Len(sig))

\* variant of the informational test that knows the empty body only
IsInfoRequestEmptyOnly(body) == Len(body) = 0

\* !body || Object.keys(body).length === 0 || body._getInfo
IsInfoRequest(body) ==
    Len(body) = 0 \/ (HasKey(body, KGetInfo) /\ Truthy(Get(body, KGetInfo)))

\* variants of the skip condition that look at one of its two disjuncts only
SkipOnlySentinel(data, tm) == data.webhookSecret = TestSecret

SkipOnlyTestMode(data, tm) == tm

\* testMode || webhookSecret === 'test-secret'
SkipSignatureVerification(data, tm) == tm \/ data.webhookSecret = TestSecret

\* variant of the header check with && in place of ||
MissingHeadersBoth(r) ==
    (~r.sig.present \/ r.sig.value = <<>>) /\ (~r.ts.present \/ r.ts.value = <<>>)

\* !signature || !timestamp: a header that is absent or the empty string
MissingHeaders(r) ==
    ~r.sig.present \/ r.sig.value = <<>> \/ ~r.ts.present \/ r.ts.value = <<>>

\* the HMAC the handler expects: over timestamp, ".", JSON.stringify(body)
ExpectedSignature(r, body, secret) ==
    HmacSha256Hex(secret, r.ts.value \o <<".">> \o JSONStringify(body))

\* signatureValue === expectedSignature
SignatureMatches(r, body, secret) ==
    StripSha256(r.sig.value) = <<ExpectedSignature(r, body, secret)>>

\* variant of the freshness check without Math.abs
TooOldOneSided(clock, ts) ==
    LET t == ParseInt(ts)
    IN ~t.nan /\ clock - t.n > FreshnessWindow

\* Math.abs(now - timestampNum) > 300; every comparison with NaN is false
TooOld(clock, ts) ==
    LET t == ParseInt(ts)
    IN ~t.nan /\ Abs(clock - t.n) > FreshnessWindow

PaymentEvent(body, data) ==
    [payment |-> Get(body, KPayment), input |-> Get(body, KInput),
     checkoutId |-> data.checkoutId]

\* the body of the informational answer; a response of another kind carries
\* none of these fields
NoInfo ==
    [message |-> Undefined, form_url |-> Undefined, checkout_id |-> Undefined,
     test_mode |-> FALSE]

\* what the handler returns: the outcome, the HTTP status of webhookResponse,
\* the items of workflowData, the checks that ran on the way, and the body
\* of the informational answer
Response(kind, status, events, checks) ==
    [kind |-> kind, status |-> status, workflowData |-> events, checks |-> checks,
     body |-> NoInfo]

\* { message, form_url: checkoutUrl, checkout_id: webhookData.checkoutId,
\*   test_mode: testMode, instructions }; the instructions follow test_mode
Info(data, tm) ==
    [Response("info", 200, <<>>, <<>>) EXCEPT
        !.body = [message |-> "xpay pay-to-run trigger is listening!",
                  form_url |-> data.checkoutUrl, checkout_id |-> data.checkoutId,
                  test_mode |-> tm]]

NoResponse == Response("none", 0, <<>>, <<>>)

Accept(body, data, checks) ==
    Response("accepted", 200, <<PaymentEvent(body, data)>>, checks)

\* variant of the rejection that answers 200
RejectWithOk(kind, checks) == Response(kind, 200, <<>>, checks)

Reject(kind, checks) == Response(kind, 401, <<>>, checks)

\* crypto.createHmac throws on a key that is undefined; the handler does not
\* catch it and the call ends without a response of its own
Threw(checks) == Response("threw", 500, <<>>, checks)

\* the signature branch of the handler
Verify(r, body, data, clock) ==
    IF MissingHeaders(r)
    THEN Reject("missing_headers", <<"headers">>)
    ELSE IF data.webhookSecret = Undefined
    THEN Threw(<<"headers">>)
    ELSE IF ~SignatureMatches(r, body, data.webhookSecret)
    THEN Reject("bad_signature", <<"headers", "hmac">>)
    ELSE IF TooOld(clock, r.ts.value)
    THEN Reject("stale_timestamp", <<"headers", "hmac", "freshness">>)
    ELSE Accept(body, data, <<"headers", "hmac", "freshness">>)

WebhookHandler(r, data, tm, clock) ==
    IF r.method = "GET"
    THEN Response("setup_page", 200, <<>>, <<>>)
    ELSE LET body == ParseBody(r.body)
         IN IF IsInfoRequest(body)
            THEN Info(data, tm)
            ELSE IF SkipSignatureVerification(data, tm)
            THEN Accept(body, data, <<>>)
            ELSE Verify(r, body, data, clock)

\* ---------------------------------------------------------------- steps
\* ------------------------------------------------------------ runAsync
\* RunStatusResult: status, output, error, cost, duration; a number field is
\* carried as its JSON literal, a missing field is Undefined
StatusResult(status, output, error, cost, duration) ==
    [status |-> status, output |-> output, error |-> error, cost |-> cost,
     duration |-> duration]

RunStatusResults ==
    {StatusResult("processing", Undefined, Undefined, Undefined, Undefined),
     StatusResult("unknown", Undefined, Undefined, Undefined, Undefined),
     StatusResult("success", "out-a", Undefined, "0.05", "1200"),
     StatusResult("completed", "out-b", Undefined, "0.07", "900"),
     StatusResult("failed", Undefined, "model refused", Undefined, Undefined),
     StatusResult("error", Undefined, "internal error", "0.01", Undefined)}

RECURSIVE SeqsUpTo(_, _)
SeqsUpTo(S, n) ==
    IF n = 0 THEN {<<>>}
    ELSE LET shorter == SeqsUpTo(S, n - 1)
         IN shorter \cup {Append(q, x) : q \in shorter, x \in S}

\* the answers the Run Service gives to the 1st, 2nd, ... status query of a
\* run; past the end of the script it repeats the last one
StatusScripts == SeqsUpTo(RunStatusResults, MaxStatusLen) \ {<<>>}

StatusAt(script, k) == script[IF k < Len(script) THEN k ELSE Len(script)]

\* node parameter pollingTimeout (seconds)
PollingTimeouts == {0, 1, 4, 5}

\* a node parameter the caller set, or left unset
Param(v) == [present |-> TRUE, value |-> v]
NoParam == [present |-> FALSE, value |-> 0]

\* getNodeParameter that never looks at what the caller set
GetNodeParameterFallbackOnly(given, fallback) == fallback

\* this.getNodeParameter(name, i, fallback)
GetNodeParameter(given, fallback) ==
    IF given.present THEN given.value ELSE fallback

\* what the caller may set: pollingTimeout, and a poll interval (in
\* milliseconds) that the node has no parameter for
ParameterChoices ==
    {[pollingTimeout |-> t, pollingInterval |-> v] :
        t \in {Param(x) : x \in PollingTimeouts} \cup {NoParam},
        v \in {NoParam, Param(1000)}}

NoParameters == [pollingTimeout |-> NoParam, pollingInterval |-> NoParam]

\* how long a request to the Run Service takes (milliseconds)
Latencies == {0, 1500}

RUN_ASYNC == "/run/async"
RUN_STATUS == "/run/status"

\* a request to the Run Service; id is the run id appended to the endpoint
Request(method, endpoint, id) == [method |-> method, endpoint |-> endpoint, id |-> id]

\* AsyncRunResult of POST /run/async
AsyncRunResults ==
    {[accepted |-> TRUE, runId |-> "run_1", statusUrl |-> "/run/status/run_1",
      error |-> Undefined],
     [accepted |-> TRUE, runId |-> "", statusUrl |-> Undefined, error |-> Undefined],
     [accepted |-> FALSE, runId |-> "", statusUrl |-> Undefined,
      error |-> "quota exceeded"],
     [accepted |-> FALSE, runId |-> "", statusUrl |-> Undefined, error |-> Undefined]}

NoResult ==
    [runId |-> Undefined, status |-> Undefined, statusUrl |-> Undefined,
     output |-> Undefined, error |-> Undefined, cost |-> Undefined,
     duration |-> Undefined]

\* the fire-and-forget result without the status URL
StartedResultNoUrl(asyncResult) ==
    [NoResult EXCEPT !.runId = asyncResult.runId, !.status = "processing"]

\* if (!waitForCompletion) { result = {runId, status: 'processing', statusUrl, ...} }
StartedResult(asyncResult) ==
    [NoResult EXCEPT !.runId = asyncResult.runId, !.status = "processing",
                     !.statusUrl = asyncResult.statusUrl]

\* an error: its message and, when a response came with it, the HTTP status
NoError == [message |-> Undefined, statusCode |-> 0]

\* new Error(message)
LocalError(message) == [message |-> message, statusCode |-> 0]

\* what a request to the Run Service throws when it fails
RequestErrors ==
    {[message |-> "socket hang up", statusCode |-> 0],
     [message |-> "Too Many Requests", statusCode |-> 429]}

\* handleApiError(error, operation): the error it throws
HandleApiError(error, op) ==
    [operation |-> op,
     text |-> IF error.statusCode = 401 THEN "Authentication failed"
              ELSE IF error.statusCode = 403 THEN "Access denied"
              ELSE IF error.statusCode = 404 THEN "Resource not found"
              ELSE IF error.statusCode = 402 THEN "Payment required"
              ELSE IF error.statusCode = 429 THEN "Rate limit exceeded"
              ELSE "failed",
     message |-> IF error.statusCode \in {401, 403, 404, 402, 429} THEN Undefined
                 ELSE IF error.message # Undefined THEN error.message
                 ELSE "Unknown error"]

NotRaised == [operation |-> Undefined, text |-> Undefined, message |-> Undefined]

\* the catch block pushing a failed run instead of the error message
ErrorItemAsFailedRun(error) ==
    [NoResult EXCEPT !.status = "failed", !.error = error.message]

\* returnData.push({ json: { error: error.message } })
ErrorItem(error) == [NoResult EXCEPT !.error = error.message]

\* the timeout result; its error text names pollingTimeout
TimeoutResult(id) ==
    [NoResult EXCEPT !.runId = id, !.status = "timeout",
                     !.error = "Execution did not complete within N seconds"]

\* the deadline test with startTime taken anew in every round of the loop
TimedOutSinceRound(nowMs, start, limitMs) == nowMs - nowMs > limitMs

\* the deadline test with the time measured from the first status query
TimedOutSinceFirstPoll(nowMs, start, limitMs) ==
    nowMs - (start + POLLING_INTERVAL_MS) > limitMs

\* Date.now() - startTime > timeoutMs
TimedOut(nowMs, start, limitMs) == nowMs - start > limitMs

\* the status tests with the break after the failed result left out
OutcomeFailedGoesOn(statusResult, id) ==
    IF statusResult.status = "success" \/ statusResult.status = "completed"
    THEN [done |-> TRUE,
          result |-> [NoResult EXCEPT !.runId = id, !.status = "completed",
                                      !.output = statusResult.output,
                                      !.cost = statusResult.cost,
                                      !.duration = statusResult.duration]]
    ELSE IF statusResult.status = "failed" \/ statusResult.status = "error"
    THEN [done |-> FALSE,
          result |-> [NoResult EXCEPT !.runId = id, !.status = "failed",
                                      !.error = statusResult.error]]
    ELSE [done |-> FALSE, result |-> NoResult]

\* the status tests knowing 'completed' but not 'success'
OutcomeCompletedOnly(statusResult, id) ==
    IF statusResult.status = "completed"
    THEN [done |-> TRUE,
          result |-> [NoResult EXCEPT !.runId = id, !.status = "completed",
                                      !.output = statusResult.output,
                                      !.cost = statusResult.cost,
                                      !.duration = statusResult.duration]]
    ELSE IF statusResult.status = "failed" \/ statusResult.status = "error"
    THEN [done |-> TRUE,
          result |-> [NoResult EXCEPT !.runId = id, !.status = "failed",
                                      !.error = statusResult.error]]
    ELSE [done |-> FALSE, result |-> NoResult]

\* what the loop does with the answer to a status query: done says whether
\* it breaks, result is what it assigned
Outcome(statusResult, id) ==
    IF statusResult.status = "success" \/ statusResult.status = "completed"
    THEN [done |-> TRUE,
          result |-> [NoResult EXCEPT !.runId = id, !.status = "completed",
                                      !.output = statusResult.output,
                                      !.cost = statusResult.cost,
                                      !.duration = statusResult.duration]]
    ELSE IF statusResult.status = "failed" \/ statusResult.status = "error"
    THEN [done |-> TRUE,
          result |-> [NoResult EXCEPT !.runId = id, !.status = "failed",
                                      !.error = statusResult.error]]
    ELSE [done |-> FALSE, result |-> NoResult]

\* the getStatus result without the output field
GetStatusResultNoOutput(statusResult, id) ==
    [NoResult EXCEPT !.runId = id,
                     !.status = statusResult.status,
                     !.error = statusResult.error,
                     !.cost = statusResult.cost,
                     !.duration = statusResult.duration]

\* getStatus: the result copies the fields of the answer; id is the run id
\* the answer carries, which is the one that was asked for
GetStatusResult(statusResult, id) ==
    [NoResult EXCEPT !.runId = id,
                     !.status = statusResult.status,
                     !.output = statusResult.output,
                     !.error = statusResult.error,
                     !.cost = statusResult.cost,
                     !.duration = statusResult.duration]

\* the run node is not executing
RunIdle ==
    /\ pc = "idle"
    /\ parameters = NoParameters
    /\ dateNow = 0
    /\ waitForCompletion = TRUE
    /\ pollingTimeout = 0
    /\ statuses = <<>>
    /\ runId = Undefined
    /\ startTime = 0
    /\ queries = 0
    /\ queriedAt = 0
    /\ result = NoResult
    /\ thrown = NoError
    /\ continueOnFail = FALSE
    /\ returnData = <<>>
    /\ raised = NotRaised
    /\ sleeps = 0
    /\ calls = <<>>

\* ---------------------------------------------------------------- steps
NoContext == [data |-> NoSession, now |-> 0]

\* the last hook: what it was, the static data it found (seen), how it
\* ended (result), what its remote request did (remote; "none": none sent),
\* the registration answer it received (response), and the registration
\* requests sent since the last delete (posts), and the recipientWallet
\* parameter create read (wallet)
NoHook ==
    [op |-> "none", result |-> "none", remote |-> "none", seen |-> NoSession,
     response |-> NoRegistration, posts |-> 0, wallet |-> Undefined]

Init ==
    /\ webhookData = NoSession
    /\ testMode \in BOOLEAN
    /\ now \in ClockPoints
    /\ req = NoRequest
    /\ deliveries = 0
    /\ triggered = 0
    /\ resp = NoResponse
    /\ ctx = NoContext
    /\ hook = NoHook
    /\ RunIdle

\* the host activates the workflow: checkExists, then create when it is false
Activate ==
    /\ hook.posts < MaxRegistrations
    /\ IF CheckExists(webhookData)
       THEN /\ hook' = [op |-> "checkExists", result |-> "true", remote |-> "none",
                        seen |-> webhookData, response |-> NoRegistration,
                        posts |-> hook.posts, wallet |-> Undefined]
            /\ UNCHANGED webhookData
       ELSE \E wallet \in Wallets, reg \in RegisterOutcomes :
              LET c == Create(webhookData, wallet, reg.remote, reg.response)
              IN /\ webhookData' = c.data
                 /\ hook' = [op |-> "create", result |-> c.result, remote |-> c.remote,
                             seen |-> webhookData, response |-> c.response,
                             posts |-> hook.posts + (IF c.remote = "none" THEN 0 ELSE 1),
                             wallet |-> wallet]
    /\ UNCHANGED <<testMode, now, req, deliveries, triggered, resp, ctx>>
    /\ UNCHANGED runVars

\* the host deactivates the workflow: delete
Deactivate ==
    /\ \E remote \in {"ok", "failed"} :
         LET d == Delete(webhookData, remote)
         IN /\ webhookData' = d.data
            /\ hook' = [op |-> "delete", result |-> d.result, remote |-> d.remote,
                        seen |-> webhookData, response |-> NoRegistration, posts |-> 0,
                        wallet |-> Undefined]
    /\ UNCHANGED <<testMode, now, req, deliveries, triggered, resp, ctx>>
    /\ UNCHANGED runVars

\* a request is put on the wire (by the Payment Service or by anyone else)
Send ==
    /\ req = NoRequest
    /\ \E r \in PostRequests \cup {GetRequest} : req' = r
    /\ deliveries' = 0
    /\ triggered' = 0
    /\ resp' = NoResponse
    /\ ctx' = NoContext
    /\ UNCHANGED <<webhookData, testMode, now, hook>>
    /\ UNCHANGED runVars

\* the request leaves the wire
Drop ==
    /\ req # NoRequest
    /\ req' = NoRequest
    /\ deliveries' = 0
    /\ triggered' = 0
    /\ resp' = NoResponse
    /\ ctx' = NoContext
    /\ UNCHANGED <<webhookData, testMode, now, hook>>
    /\ UNCHANGED runVars

\* the request on the wire reaches the webhook; it may be delivered again
Webhook ==
    /\ req # NoRequest
    /\ deliveries < MaxDeliveries
    /\ resp' = WebhookHandler(req, webhookData, testMode, now)
    /\ ctx' = [data |-> webhookData, now |-> now]
    /\ deliveries' = deliveries + 1
    /\ triggered' = triggered + Len(resp'.workflowData)
    /\ UNCHANGED <<webhookData, testMode, now, req, hook>>
    /\ UNCHANGED runVars

Tick ==
    /\ \E t \in ClockPoints : t > now /\ now' = t
    /\ UNCHANGED <<webhookData, testMode, req, deliveries, triggered, resp, ctx, hook>>
    /\ UNCHANGED runVars

Next == Activate \/ Deactivate \/ Send \/ Drop \/ Webhook \/ Tick

Spec == Init /\ [][Next]_vars

\* ------------------------------------------------- steps of runAsync
\* the trigger node is not in play
TriggerIdle ==
    /\ webhookData = NoSession
    /\ testMode = TRUE
    /\ now = 0
    /\ req = NoRequest
    /\ deliveries = 0
    /\ triggered = 0
    /\ resp = NoResponse
    /\ ctx = NoContext
    /\ hook = NoHook

\* execute() enters the runAsync branch for one item, the caller having
\* set the timing parameters P
InitRunWith(P) ==
    /\ TriggerIdle
    /\ pc = "start"
    /\ parameters \in P
    /\ dateNow = 0
    /\ waitForCompletion \in BOOLEAN
    /\ pollingTimeout =
          GetNodeParameter(parameters.pollingTimeout, DefaultPollingTimeout)
    /\ statuses \in StatusScripts
    /\ runId = Undefined
    /\ startTime = 0
    /\ queries = 0
    /\ queriedAt = 0
    /\ result = NoResult
    /\ thrown = NoError
    /\ continueOnFail \in BOOLEAN
    /\ returnData = <<>>
    /\ raised = NotRaised
    /\ sleeps = 0
    /\ calls = <<>>

\* the caller sets pollingTimeout and nothing else
InitRun ==
    InitRunWith({p \in ParameterChoices :
                    p.pollingTimeout.present /\ ~p.pollingInterval.present})

\* the caller sets what they like
InitRunParam == InitRunWith(ParameterChoices)

\* a status request wrapped in its own try/catch inside the loop: the error
\* is noted and the loop goes round again
CatchAndPollAgain(error, op) ==
    IF pc = "querying"
    THEN /\ pc' = "loop"
         /\ thrown' = error
         /\ UNCHANGED <<returnData, raised>>
    ELSE /\ pc' = "threw"
         /\ thrown' = error
         /\ IF continueOnFail
            THEN /\ returnData' = Append(returnData, ErrorItem(error))
                 /\ UNCHANGED raised
            ELSE /\ raised' = HandleApiError(error, op)
                 /\ UNCHANGED returnData

\* the try block is left by error: the catch block pushes an error item
\* when continueOnFail, else handleApiError throws out of execute()
Catch(error, op) ==
    /\ pc' = "threw"
    /\ thrown' = error
    /\ IF continueOnFail
       THEN /\ returnData' = Append(returnData, ErrorItem(error))
            /\ UNCHANGED raised
       ELSE /\ raised' = HandleApiError(error, op)
            /\ UNCHANGED returnData

\* the try block ends normally: returnData.push({ json: result })
Push(res) ==
    /\ pc' = "returned"
    /\ result' = res
    /\ returnData' = Append(returnData, res)
    /\ UNCHANGED <<thrown, raised>>

\* POST /run/async and what follows its answer up to the loop
Submit ==
    /\ pc = "start"
    /\ calls' = Append(calls, Request("POST", RUN_ASYNC, Undefined))
    /\ \E lat \in Latencies :
         /\ dateNow' = dateNow + lat
         /\ \/ \E e \in RequestErrors :
                 /\ Catch(e, "runAsync")
                 /\ UNCHANGED <<runId, startTime, result>>
            \/ \E asyncResult \in AsyncRunResults :
                 IF ~asyncResult.accepted \/ asyncResult.runId = ""
                 THEN /\ Catch(LocalError(IF asyncResult.error # Undefined
                                          THEN asyncResult.error
                                          ELSE "Failed to start async execution"),
                               "runAsync")
                      /\ UNCHANGED <<runId, startTime, result>>
                 ELSE IF ~waitForCompletion
                 THEN /\ Push(StartedResult(asyncResult))
                      /\ runId' = asyncResult.runId
                      /\ UNCHANGED startTime
                 ELSE /\ pc' = "loop"
                      /\ runId' = asyncResult.runId
                      /\ startTime' = dateNow'
                      /\ UNCHANGED <<result, thrown, returnData, raised>>
    /\ UNCHANGED <<parameters, waitForCompletion, pollingTimeout, statuses, queries, queriedAt,
                   continueOnFail, sleeps>>
    /\ UNCHANGED triggerVars

\* the top of the loop: the deadline test, then the sleep begins
LoopTop ==
    /\ pc = "loop"
    /\ IF TimedOut(dateNow, startTime, pollingTimeout * 1000)
       THEN /\ Push(TimeoutResult(runId))
            /\ UNCHANGED sleeps
       ELSE /\ pc' = "sleeping"
            /\ sleeps' = sleeps + 1
            /\ UNCHANGED <<result, thrown, returnData, raised>>
    /\ UNCHANGED <<parameters, dateNow, waitForCompletion, pollingTimeout, statuses, runId,
                   startTime, queries, queriedAt, continueOnFail, calls>>
    /\ UNCHANGED triggerVars

\* the sleep ends and the status query is sent
Wake ==
    /\ pc = "sleeping"
    /\ dateNow + POLLING_INTERVAL_MS <= MaxClock
    /\ dateNow' = dateNow + POLLING_INTERVAL_MS
    /\ queries' = queries + 1
    /\ queriedAt' = dateNow'
    /\ calls' = Append(calls, Request("GET", RUN_STATUS, runId))
    /\ pc' = "querying"
    /\ UNCHANGED <<parameters, waitForCompletion, pollingTimeout, statuses, runId, startTime,
                   result, thrown, continueOnFail, returnData, raised, sleeps>>
    /\ UNCHANGED triggerVars

\* the status query is answered, or throws
Reply ==
    /\ pc = "querying"
    /\ \E lat \in Latencies :
         /\ dateNow' = dateNow + lat
         /\ \/ \E e \in RequestErrors :
                 /\ Catch(e, "runAsync")
                 /\ UNCHANGED result
            \/ LET o == Outcome(StatusAt(statuses, queries), runId)
               IN IF o.done
                  THEN Push(o.result)
                  ELSE /\ pc' = "loop"
                       /\ result' = (IF o.result = NoResult THEN result ELSE o.result)
                       /\ UNCHANGED <<thrown, returnData, raised>>
    /\ UNCHANGED <<parameters, waitForCompletion, pollingTimeout, statuses, runId, startTime,
                   queries, queriedAt, continueOnFail, sleeps, calls>>
    /\ UNCHANGED triggerVars

NextRun == Submit \/ LoopTop \/ Wake \/ Reply

SpecRun == InitRun /\ [][NextRun]_vars

\* the host's event loop resumes execute() whenever the promise it awaits
\* has settled
SpecRunFair == SpecRun /\ WF_vars(NextRun)

\* runAsync whatever timing parameters the caller set or left unset
SpecRunParam == InitRunParam /\ [][NextRun]_vars

\* ------------------------------------------------ steps of getStatus
\* execute() is called with MaxItems items, each a getStatus for run_1
InitStatus ==
    /\ TriggerIdle
    /\ pc = "start"
    /\ parameters = NoParameters
    /\ dateNow = 0
    /\ waitForCompletion = TRUE
    /\ pollingTimeout = 0
    /\ statuses \in StatusScripts
    /\ runId = "run_1"
    /\ startTime = 0
    /\ queries = 0
    /\ queriedAt = 0
    /\ result = NoResult
    /\ thrown = NoError
    /\ continueOnFail \in BOOLEAN
    /\ returnData = <<>>
    /\ raised = NotRaised
    /\ sleeps = 0
    /\ calls = <<>>

\* one round of the item loop in the getStatus branch
GetStatus ==
    /\ pc = "start"
    /\ queries < MaxItems
    /\ calls' = Append(calls, Request("GET", RUN_STATUS, runId))
    /\ queries' = queries + 1
    /\ queriedAt' = dateNow
    /\ \E lat \in Latencies :
         /\ dateNow' = dateNow + lat
         /\ \/ \E e \in RequestErrors :
                 /\ thrown' = e
                 /\ UNCHANGED result
                 /\ IF continueOnFail
                    THEN /\ returnData' = Append(returnData, ErrorItem(e))
                         /\ pc' = (IF queries' < MaxItems THEN "start" ELSE "returned")
                         /\ UNCHANGED raised
                    ELSE /\ raised' = HandleApiError(e, "getStatus")
                         /\ pc' = "threw"
                         /\ UNCHANGED returnData
            \/ /\ result' = GetStatusResult(StatusAt(statuses, queries'), runId)
               /\ returnData' = Append(returnData, result')
               /\ pc' = (IF queries' < MaxItems THEN "start" ELSE "returned")
               /\ UNCHANGED <<thrown, raised>>
    /\ UNCHANGED <<parameters, waitForCompletion, pollingTimeout, statuses, runId, startTime,
                   continueOnFail, sleeps>>
    /\ UNCHANGED triggerVars

NextStatus == GetStatus

SpecStatus == InitStatus /\ [][NextStatus]_vars

\* =============================================================== claims
\* The handler has run on req: resp is its answer and ctx what it saw.
Delivered == deliveries > 0 /\ req.method = "POST"

Body == ParseBody(req.body)

StoredSecret == ctx.data.webhookSecret

\* live mode, and the session the handler saw came from a registration
LiveActive ==
    /\ ~testMode
    /\ ctx.data.checkoutId \notin {Undefined, LocalCheckoutId}
    /\ StoredSecret \notin {Undefined, TestSecret}

\* the signature header is the digest of timestamp "." p under key k, bare
\* or behind sha256=
SignatureOver(k, p) ==
    /\ req.ts.present
    /\ req.sig.present
    /\ req.sig.value \in {<<SenderSignature(k, req.ts.value, p)>>,
                         <<Sha256Prefix, SenderSignature(k, req.ts.value, p)>>}

\* the timestamp header is a decimal number
NumericTimestamp ==
    /\ req.ts.present
    /\ req.ts.value # <<>>
    /\ \A i \in 1..Len(req.ts.value) : req.ts.value[i] \in DigitSet

TimestampValue == DigitsToNat(req.ts.value)

Accepted ==
    /\ resp.kind = "accepted"
    /\ resp.status = 200
    /\ Len(resp.workflowData) = 1

\* p and q have the same length and differ in exactly one unit
OneUnitChanged(p, q) ==
    /\ Len(p) = Len(q)
    /\ Cardinality({i \in 1..Len(p) : p[i] # q[i]}) = 1

\* C1: in live mode with an active session, a request that carries payload
\* P, timestamp T within 300 seconds of the clock and the HMAC of T "." P
\* under the stored secret is accepted: one payment event, status 200.
\* (Stated for bodies the handler treats as payment notifications.)
C1_SignedFreshAccepted ==
    (/\ Delivered
     /\ LiveActive
     /\ ~IsInfoRequest(Body)
     /\ SignatureOver(StoredSecret, req.body)
     /\ NumericTimestamp
     /\ Abs(ctx.now - TimestampValue) <= FreshnessWindow)
    => Accepted

\* C2: in live mode with an active session, a payload of which one byte
\* was changed after signing, sent with the signature and timestamp of the
\* original, is rejected as a bad signature.
\* (Stated for bodies the handler treats as payment notifications.)
C2_TamperedRejected ==
    \A p \in SignedElsewhere :
        (/\ Delivered
         /\ LiveActive
         /\ ~IsInfoRequest(Body)
         /\ OneUnitChanged(p, req.body)
         /\ SignatureOver(StoredSecret, p)
         /\ NumericTimestamp)
        => resp.kind = "bad_signature"

C4_AtMostOnce ==
    (Delivered /\ LiveActive /\ SignatureOver(StoredSecret, req.body))
    => triggered <= 1

\* C5: the signature check passes exactly for the HMAC over timestamp "."
\* the raw bytes received, whatever byte form the payload has.
C5_RawBytesSigned ==
    (/\ Delivered
     /\ LiveActive
     /\ ~IsInfoRequest(Body)
     /\ ~MissingHeaders(req)
     /\ NumericTimestamp)
    => (resp.kind # "bad_signature"
        <=> StripSha256(req.sig.value) =
                <<SenderSignature(StoredSecret, req.ts.value, req.body)>>)

\* C6 (as claimed): in live mode with an active session, a request with a
\* non-empty payload that lacks the signature header or the timestamp
\* header is rejected for missing headers.
C6_Original ==
    (/\ Delivered
     /\ LiveActive
     /\ Len(Body) > 0
     /\ (~req.sig.present \/ ~req.ts.present))
    => resp.kind = "missing_headers"

\* C6 (amended): the same for a non-empty payload without a truthy _getInfo
\* flag; the answer is 401 and nothing is forwarded.
C6_MissingHeadersRejected ==
    (/\ Delivered
     /\ LiveActive
     /\ ~IsInfoRequest(Body)
     /\ (~req.sig.present \/ ~req.ts.present))
    => (resp.kind = "missing_headers" /\ resp.status = 401 /\ resp.workflowData = <<>>)

C6_Witness ==
    /\ Delivered
    /\ LiveActive
    /\ ~req.sig.present
    /\ req.ts.present
    /\ resp.kind = "missing_headers"

\* C7 (as claimed): in test mode every payload is accepted, whatever the
\* headers and the session state.
C7_Original == (Delivered /\ testMode) => Accepted

\* C7 (amended): in test mode every payload that is non-empty and has no
\* truthy _getInfo flag is accepted, whatever the headers and the session
\* state, and no check runs.
C7_TestModeAccepts ==
    (Delivered /\ testMode /\ ~IsInfoRequest(Body))
    => (Accepted /\ resp.checks = <<>>)

C7_Witness ==
    /\ Delivered
    /\ testMode
    /\ StoredSecret = RemoteSecret
    /\ ~req.sig.present
    /\ req.ts.present
    /\ req.ts.value = TsGarbage
    /\ Accepted

C9_NoSignedTrafficWithoutSession ==
    (/\ Delivered
     /\ ~testMode
     /\ ctx.data.checkoutId \in {Undefined, LocalCheckoutId}
     /\ req.sig.present
     /\ req.ts.present)
    => resp.workflowData = <<>>

RejectedOutcome ==
    /\ resp.kind \in {"missing_headers", "bad_signature", "stale_timestamp"}
    /\ resp.status = 401
    /\ resp.workflowData = <<>>

HookRan(op) == hook.op = op

\* C11: when the registration request fails, create does not abort: it
\* writes the local-fallback sentinel (the fixed id and the fixed secret),
\* returns success, and exists is true afterwards.
C11_FallbackOnRegistrationFailure ==
    (HookRan("create") /\ hook.remote = "failed") =>
        /\ hook.result = "true"
        /\ webhookData.checkoutId = LocalCheckoutId
        /\ webhookData.webhookSecret = TestSecret
        /\ CheckExists(webhookData)

C11_Witness ==
    /\ HookRan("create")
    /\ hook.remote = "failed"
    /\ hook.seen = NoSession
    /\ webhookData.checkoutId = LocalCheckoutId

\* C12 (as claimed): after delete returns, whatever it found (a registered
\* session with the remote call succeeding or failing, the sentinel, or no
\* session), the static data holds no session id, URL or secret, and exists
\* is false.
C12_DeleteClears ==
    HookRan("delete") => (webhookData = NoSession /\ ~CheckExists(webhookData))

\* C13: while no delete intervenes, activating twice sends at most one
\* registration request: the second activation finds the session through
\* checkExists and sends no POST /v1/webhooks/register.
C13_AtMostOneRegistration ==
    /\ hook.posts <= 1
    /\ (HookRan("checkExists") => (hook.remote = "none" /\ webhookData = hook.seen))

C13_Witness ==
    /\ HookRan("checkExists")
    /\ hook.posts = 1
    /\ CheckExists(webhookData)

\* the session delete found needs no remote call: none, or the sentinel
NothingRegistered(data) ==
    data.checkoutId = Undefined \/ data.checkoutId = LocalCheckoutId

\* C14: delete never fails deactivation: it returns success also when the
\* remote DELETE fails; when it finds no session or the sentinel it returns
\* success without a remote call; and a delete that follows a delete changes
\* nothing, calls nothing and returns success.
C14_DeleteNeverFails ==
    /\ [](HookRan("delete") =>
            /\ hook.result = "true"
            /\ (NothingRegistered(hook.seen) =>
                    (hook.remote = "none" /\ webhookData = hook.seen)))
    /\ [][(hook.op = "delete" /\ hook'.op = "delete" /\ hook' # hook) =>
            /\ webhookData' = webhookData
            /\ hook'.result = "true"
            /\ hook'.remote = "none"]_vars

C14_Witness ==
    /\ HookRan("delete")
    /\ hook.seen.checkoutId = RemoteCheckoutId
    /\ hook.remote = "failed"
    /\ hook.result = "true"

\* C15: when the registration request succeeds, create stores the session
\* id, the checkout URL and the shared secret of the answer in the static
\* data and returns success; the stored values are exactly the answer's.
C15_StoresRegistration ==
    (HookRan("create") /\ hook.remote = "ok") =>
        /\ hook.result = "true"
        /\ hook.response \in RegisterResponses
        /\ webhookData.checkoutId = hook.response.checkout_id
        /\ webhookData.checkoutUrl = hook.response.checkout_url
        /\ webhookData.webhookSecret = hook.response.webhook_secret

C15_Witness ==
    /\ HookRan("create")
    /\ hook.remote = "ok"
    /\ hook.response.checkout_id = "chk_2"
    /\ webhookData.webhookSecret = "k3y2"

\* C16: from the create that stores a session until the delete that clears
\* it, the stored shared secret is never modified: a step that changes a
\* stored secret is a delete, and it leaves no secret.  Webhook deliveries,
\* info requests, exists checks and repeated activations leave it alone.
C16_SecretStable ==
    [][(webhookData.webhookSecret # Undefined
            /\ webhookData'.webhookSecret # webhookData.webhookSecret) =>
        (hook'.op = "delete" /\ webhookData'.webhookSecret = Undefined)]_vars

\* a delivery and a repeated activation both saw the registered secret
C16_Witness ==
    /\ HookRan("checkExists")
    /\ hook.seen.webhookSecret = RemoteSecret
    /\ Delivered
    /\ StoredSecret = RemoteSecret
    /\ webhookData.webhookSecret = RemoteSecret

\* ------------------------------------------------------ execution poller
TerminalResults == {"completed", "failed", "timeout"}

SuccessStatuses == {"success", "completed"}

FailureStatuses == {"failed", "error"}

\* the state of the run as the operation holds it: the terminal result once
\* one is assigned, else where execute() stands
RunState ==
    IF result.status \in TerminalResults THEN result.status
    ELSE IF pc = "start" THEN "submitting"
    ELSE IF pc \in {"loop", "sleeping", "querying"} THEN "processing"
    ELSE IF pc = "returned" THEN "started"
    ELSE "aborted"

RunMoves ==
    {<<"submitting", "processing">>, <<"submitting", "started">>,
     <<"submitting", "aborted">>, <<"processing", "aborted">>} \cup
    {<<"processing", t>> : t \in TerminalResults}

\* C17: a run moves only from submission to processing and from processing
\* to completed, failed or timed out; a terminal result is held only by an
\* operation that has returned, and once it is assigned no status query is
\* sent and the result is not overwritten.
C17_TerminalIsFinal ==
    /\ [](result.status \in TerminalResults => pc = "returned")
    /\ [][RunState' # RunState => <<RunState, RunState'>> \in RunMoves]_vars
    /\ [][result.status \in TerminalResults =>
            (result' = result /\ queries' = queries /\ pc' = pc)]_vars

C17_Witness ==
    /\ pc = "returned"
    /\ result.status = "failed"
    /\ queries = 2

\* the index of the first terminal answer of a script, 0 when it has none
FirstTerminal(script) ==
    LET T == {i \in 1..Len(script) :
                script[i].status \in SuccessStatuses \cup FailureStatuses}
    IN IF T = {} THEN 0 ELSE CHOOSE i \in T : \A j \in T : i <= j

Elapsed == dateNow - startTime

\* C18: when the k-th answer is the first terminal one, the wait never sends
\* more than k status queries, and unless the deadline test fired first it
\* returns after exactly k queries: completed with the output, cost and
\* duration of that answer when it is success or completed, failed with its
\* error when it is failed or error.
C18_FirstTerminalDecides ==
    LET k == FirstTerminal(statuses)
    IN /\ (k # 0 => queries <= k)
       /\ (pc = "returned" /\ result.status = "timeout" =>
              Elapsed > pollingTimeout * 1000)
       /\ (pc = "returned" /\ waitForCompletion /\ result.status # "timeout" =>
              /\ k # 0
              /\ queries = k
              /\ (statuses[k].status \in SuccessStatuses =>
                     /\ result.status = "completed"
                     /\ result.output = statuses[k].output
                     /\ result.cost = statuses[k].cost
                     /\ result.duration = statuses[k].duration)
              /\ (statuses[k].status \in FailureStatuses =>
                     /\ result.status = "failed"
                     /\ result.error = statuses[k].error))

C18_Witness ==
    /\ pc = "returned"
    /\ FirstTerminal(statuses) = 3
    /\ statuses[3].status = "success"
    /\ queries = 3
    /\ result.status = "completed"
    /\ result.output = "out-a"

\* C19: when the answers never become terminal and every status query is
\* answered, the wait ends with the timeout result.
C19_EventuallyTimedOut ==
    (pc = "loop" /\ FirstTerminal(statuses) = 0)
        ~> (pc = "threw" \/ (pc = "returned" /\ result.status = "timeout"))

C19_Witness ==
    /\ pc = "returned"
    /\ result.status = "timeout"
    /\ FirstTerminal(statuses) = 0
    /\ pollingTimeout = 5
    /\ queries >= 3

\* C20 (as claimed): completed or failed is returned only for a terminal
\* answer observed while the elapsed time is within the timeout, and no
\* status query is sent after the deadline has passed.
C20_DeadlineRespected ==
    /\ (pc = "returned" /\ result.status \in {"completed", "failed"} =>
           Elapsed <= pollingTimeout * 1000)
    /\ (queries > 0 => queriedAt - startTime <= pollingTimeout * 1000)

\* the submission was answered but not accepted, or without a run id
SubmitRejected ==
    /\ pc = "threw"
    /\ thrown.message \in {"quota exceeded", "Failed to start async execution"}

C22_MeasuredFromSubmission ==
    /\ (pc = "loop" /\ queries = 0 => Elapsed = 0)
    /\ (pc \in {"loop", "sleeping"} => Elapsed >= queries * POLLING_INTERVAL_MS)
    /\ (pc = "sleeping" => Elapsed <= pollingTimeout * 1000)
    /\ (pc = "returned" /\ result.status = "timeout" =>
           Elapsed > pollingTimeout * 1000)

\* one poll, slow, after the first sleep: both counted, the wait timed out
C22_Witness ==
    /\ pc = "returned"
    /\ result.status = "timeout"
    /\ pollingTimeout = 1
    /\ queries = 1
    /\ Elapsed = 3500

\* C23: with waitForCompletion off an accepted submission returns at once:
\* the result carries the run id, the status URL and the non-terminal
\* status processing, and no status query and no sleep were made.
C23_FireAndForget ==
    (pc = "returned" /\ ~waitForCompletion) =>
        /\ result.runId = runId
        /\ runId \notin {Undefined, ""}
        /\ result.statusUrl \in {a.statusUrl : a \in AsyncRunResults} \ {Undefined}
        /\ result.status = "processing"
        /\ result.status \notin TerminalResults
        /\ queries = 0
        /\ sleeps = 0
        /\ calls = <<Request("POST", RUN_ASYNC, Undefined)>>
        /\ returnData = <<result>>

C23_Witness ==
    /\ pc = "returned"
    /\ ~waitForCompletion
    /\ result.runId = "run_1"
    /\ result.statusUrl = "/run/status/run_1"
    /\ queries = 0

\* the item pushed for the i-th getStatus is a status result, not an error
StatusItem(i) == returnData[i].status # Undefined

\* C24: getStatus reads the status once per call: one status query for the
\* given run and no other request, no sleep, no state changed; the result
\* holds the status, output, error, cost and duration of the answer, so a
\* completed run comes back as completed with its output, and two calls
\* that get the same answer return equal results.
C24_GetStatusReadsOnce ==
    /\ Len(calls) = queries
    /\ \A i \in 1..Len(calls) : calls[i] = Request("GET", RUN_STATUS, "run_1")
    /\ Len(returnData) <= queries
    /\ (pc = "returned" => queries = Len(returnData))
    /\ sleeps = 0
    /\ startTime = 0
    /\ webhookData = NoSession
    /\ \A i \in 1..Len(returnData) :
          StatusItem(i) =>
              LET a == StatusAt(statuses, i)
              IN /\ returnData[i].runId = "run_1"
                 /\ returnData[i].status = a.status
                 /\ returnData[i].output = a.output
                 /\ returnData[i].error = a.error
                 /\ returnData[i].cost = a.cost
                 /\ returnData[i].duration = a.duration
    /\ \A i, j \in 1..Len(returnData) :
          (StatusItem(i) /\ StatusItem(j)
                /\ StatusAt(statuses, i) = StatusAt(statuses, j))
             => returnData[i] = returnData[j]

C24_Witness ==
    /\ pc = "returned"
    /\ queries = 2
    /\ Len(returnData) = 2
    /\ returnData[1].status = "completed"
    /\ returnData[1].output = "out-b"
    /\ returnData[2] = returnData[1]
    /\ sleeps = 0

\* the interval the caller chose, 2 seconds when they chose none
ChosenInterval == IF parameters.pollingInterval.present
                  THEN parameters.pollingInterval.value
                  ELSE 2000

C26_OneSubmissionNoRetry ==
    /\ [](pc # "start" =>
            /\ Len(calls) = 1 + queries
            /\ calls[1] = Request("POST", RUN_ASYNC, Undefined)
            /\ \A i \in 2..Len(calls) :
                  /\ calls[i] = Request("GET", RUN_STATUS, runId)
                  /\ runId \notin {Undefined, ""})
    /\ [](thrown # NoError => pc = "threw")
    /\ [][(pc = "threw" \/ pc = "returned") =>
            (calls' = calls /\ sleeps' = sleeps)]_vars

C26_Witness ==
    /\ pc = "threw"
    /\ thrown.statusCode = 429
    /\ queries = 2
    /\ Len(calls) = 3
    /\ calls[3] = Request("GET", RUN_STATUS, "run_1")

\* the bodies that ask for information: no body, the empty object, and an
\* object whose _getInfo is set (with or without a payment beside it)
InfoPayloads == {PNoBody, PEmpty, PInfo, PInfoPay}

\* C27: a POST with an empty body or with _getInfo set is answered 200 with
\* the informational body carrying the stored form URL, the stored checkout
\* id and the test-mode flag; in either mode and any session state no check
\* of the signature branch runs and no payment event is forwarded.
C27_InfoRequestAnswered ==
    (Delivered /\ req.body \in InfoPayloads)
    => /\ resp.kind = "info"
       /\ resp.status = 200
       /\ resp.body.form_url = ctx.data.checkoutUrl
       /\ resp.body.checkout_id = ctx.data.checkoutId
       /\ resp.body.test_mode = testMode
       /\ resp.checks = <<>>
       /\ resp.workflowData = <<>>
       /\ triggered = 0

\* a live node with a registered session answers a signed request whose
\* body has a payment and _getInfo: information, nothing forwarded
C27_Witness ==
    /\ Delivered
    /\ LiveActive
    /\ req.body = PInfoPay
    /\ SignatureOver(StoredSecret, req.body)
    /\ deliveries = MaxDeliveries
    /\ resp.kind = "info"
    /\ resp.body.form_url = RemoteCheckoutUrl
    /\ resp.body.checkout_id = RemoteCheckoutId
    /\ ~resp.body.test_mode
    /\ triggered = 0
\* C28: once the static data holds the local-fallback sentinel, every hook
\* the host runs leaves the static data as it is: delete returns true
\* without a request and without clearing, exists returns true, and create
\* (hence a registration request) never runs again.
C28_FallbackIsPermanent ==
    [][webhookData.checkoutId = LocalCheckoutId =>
         /\ webhookData' = webhookData
         /\ webhookData'.checkoutId # Undefined
         /\ (hook' # hook =>
                /\ hook'.op \in {"delete", "checkExists"}
                /\ hook'.result = "true"
                /\ hook'.remote = "none"
                /\ hook'.posts <= hook.posts)]_vars

\* exists answers true on the sentinel after a delete has run on it (no
\* registration request was sent since that delete)
C28_Witness ==
    /\ HookRan("checkExists")
    /\ hook.result = "true"
    /\ hook.seen.checkoutId = LocalCheckoutId
    /\ hook.seen.webhookSecret = TestSecret
    /\ hook.posts = 0
    /\ webhookData = hook.seen
\* C29 (as claimed): in live mode with an active session, a request that was
\* accepted carries a timestamp header that is a decimal number within 300
\* seconds of the clock the handler read; a request signed over a timestamp
\* that is no number is not accepted.
C29_AcceptedTimestampIsFresh ==
    (Delivered /\ LiveActive /\ Accepted)
    => (NumericTimestamp /\ Abs(ctx.now - TimestampValue) <= FreshnessWindow)
\* wallets that are empty or not 0x followed by 40 hexadecimal characters
BadWallets == {"", "0x123"}

====
